---- MODULE Spec2Model ----
(***************************************************************************)
(* RocksDbTreeStore (src/src/rocksdb_store.rs): a tree store that keeps    *)
(* tree nodes, versioned values and preimages in one ordered byte-string   *)
(* engine.  Keys and values are modelled as the byte strings bincode       *)
(* produces (fixed-width little-endian integers, u64 length prefixes,      *)
(* trailing bytes accepted on decode); the engine is a finite map from     *)
(* byte strings to byte strings, iterated in byte-lexicographic order.     *)
(***************************************************************************)
EXTENDS Integers, Sequences, FiniteSets, TLC

VARIABLES
    engine,     \* self.db: the engine's committed contents, key bytes -> value bytes
    committed,  \* history: the value entries of the batches the engine accepted
    ret,        \* the last call: its operation, arguments and result
    pc,         \* position of the writer inside write_node_batch
    wb,         \* the WriteBatch the writer has staged (local to the call)
    iter        \* the iterator of a running get_value_option scan

vars == <<engine, committed, ret, pc, wb, iter>>

----------------------------------------------------------------------------
(* Bounds of the model *)

\* versions a batch may carry: 0..MaxVersion
MaxVersion == 2

\* versions of the codec specification: 0..MaxCodecVersion (past one byte)
MaxCodecVersion == 257

----------------------------------------------------------------------------
(* Results and options *)

None == <<>>
Some(x) == <<x>>
Ok(x) == <<"Ok", x>>
Err == <<"Err">>

IsOk(r) == r[1] = "Ok"

----------------------------------------------------------------------------
(* Codec: bincode::serialize / bincode::deserialize *)

\* width of a u64 (Version, usize length prefixes) in bytes
U64Len == 8

\* width of a KeyHash in bytes
KeyHashLen == 32

\* KeyHash([b; 32]), ValueHash([b; 32]): the hashes of the model are the arrays
\* that repeat one byte, as in the tests, and are named by that byte
HashBytes(b) == [i \in 1..KeyHashLen |-> b]

\* the two content keys of the tests
Key1 == 1
Key2 == 2

RECURSIVE LittleEndian(_, _)
\* a fixed-width unsigned integer, least significant byte first
LittleEndian(v, n) ==
    IF n = 0 THEN <<>> ELSE <<v % 256>> \o LittleEndian(v \div 256, n - 1)

\* how the codec lays out a u64
SerializeU64(v) == LittleEndian(v, U64Len)

RECURSIVE DeserializeU64(_)
\* the u64 a little-endian byte string stands for
DeserializeU64(bytes) ==
    IF bytes = <<>> THEN 0 ELSE Head(bytes) + 256 * DeserializeU64(Tail(bytes))

\* a value key that leaves the version out
SerializeValueKeyUnversioned(key_hash, version) ==
    HashBytes(key_hash) \o SerializeU64(0)

\* bincode::serialize(&(*key_hash, *version))
SerializeValueKey(key_hash, version) == HashBytes(key_hash) \o SerializeU64(version)

\* bincode::deserialize::<(KeyHash, Version)>(&key): any key long enough decodes
DeserializeValueKey(key) ==
    IF Len(key) >= KeyHashLen + U64Len
    THEN Ok([key_hash |-> SubSeq(key, 1, KeyHashLen),
             version |-> DeserializeU64(SubSeq(key, KeyHashLen + 1, KeyHashLen + U64Len))])
    ELSE Err

\* bincode::serialize(value) of an Option<Vec<u8>>
SerializeValue(value) ==
    IF value = None THEN <<0>>
    ELSE <<1>> \o SerializeU64(Len(value[1])) \o value[1]

\* bincode::deserialize::<Option<Vec<u8>>>(&value): a tag byte, then for Some a
\* u64 length and that many bytes (a length beyond the bytes at hand is an error)
DeserializeValue(bytes) ==
    IF Len(bytes) = 0 THEN Err
    ELSE IF bytes[1] = 0 THEN Ok(None)
    ELSE IF bytes[1] = 1 /\ Len(bytes) >= 1 + U64Len
            /\ \A i \in 4..(1 + U64Len) : bytes[i] = 0
            /\ DeserializeU64(SubSeq(bytes, 2, 3)) <= Len(bytes) - 1 - U64Len
         THEN Ok(Some(SubSeq(bytes, 2 + U64Len,
                             1 + U64Len + DeserializeU64(SubSeq(bytes, 2, 3)))))
    ELSE Err

\* the bytes of the string "preimage"
PreimageTag == <<112, 114, 101, 105, 109, 97, 103, 101>>

\* bincode::serialize(&(key_hash, "preimage"))
SerializePreimageKey(key_hash) ==
    HashBytes(key_hash) \o SerializeU64(Len(PreimageTag)) \o PreimageTag

\* bincode::serialize(node_key): NodeKey {version, path}
SerializeNodeKey(node_key) ==
    SerializeU64(node_key.version) \o SerializeU64(Len(node_key.path)) \o node_key.path

\* discriminant of the Leaf variant of Node
LeafTag == 0

\* bincode::serialize(node): Leaf {content_key_hash, value_hash}
SerializeNode(node) ==
    LittleEndian(LeafTag, 4) \o HashBytes(node.key_hash) \o HashBytes(node.value_hash)

\* bincode::deserialize(&value) as a Node
DeserializeNode(bytes) ==
    IF /\ Len(bytes) >= 4 + 2 * KeyHashLen
       /\ SubSeq(bytes, 1, 4) = LittleEndian(LeafTag, 4)
       /\ SubSeq(bytes, 5, 4 + KeyHashLen) = HashBytes(bytes[5])
       /\ SubSeq(bytes, 5 + KeyHashLen, 4 + 2 * KeyHashLen) = HashBytes(bytes[5 + KeyHashLen])
    THEN Ok([key_hash |-> bytes[5], value_hash |-> bytes[5 + KeyHashLen]])
    ELSE Err

----------------------------------------------------------------------------
(* The engine: get and ordered iteration *)

RECURSIVE LexLessFrom(_, _, _)
\* byte-lexicographic order of two keys that agree before position i
LexLessFrom(a, b, i) ==
    IF i > Len(b) THEN FALSE
    ELSE IF i > Len(a) THEN TRUE
    ELSE IF a[i] # b[i] THEN a[i] < b[i]
    ELSE LexLessFrom(a, b, i + 1)

\* byte-lexicographic order of keys, the engine's iteration order
LexLess(a, b) == LexLessFrom(a, b, 1)

\* the position of key in the engine's entries, 0 when it has none
PositionOf(db, key) ==
    LET at == {i \in 1..Len(db) : db[i][1] = key}
    IN  IF at = {} THEN 0 ELSE CHOOSE i \in at : TRUE

\* self.db.get(key)
DbGet(db, key) ==
    IF PositionOf(db, key) = 0 THEN None ELSE Some(db[PositionOf(db, key)][2])

\* one put: the value under key is replaced, or the entry takes its place in key order
DbPut(db, key, value) ==
    IF PositionOf(db, key) # 0
    THEN [db EXCEPT ![PositionOf(db, key)] = <<key, value>>]
    ELSE LET before == Cardinality({i \in 1..Len(db) : LexLess(db[i][1], key)})
         IN  SubSeq(db, 1, before) \o <<<<key, value>>>> \o SubSeq(db, before + 1, Len(db))

----------------------------------------------------------------------------
(* The inputs of the model *)

Versions == 0..MaxVersion

KeyHashes == {Key1, Key2}

\* payloads a batch may put
PayloadA == <<1>>
PayloadB == <<2>>

\* what a batch may write for a content key at a version: a tombstone or a
\* payload; the second key enters the tree at the last version only
ValueChoices(key_hash, version) ==
    IF key_hash = Key1 THEN {None, Some(PayloadA), Some(PayloadB)}
    ELSE IF version = MaxVersion THEN {Some(PayloadA)}
    ELSE {}

\* the root of the tree
RootKey == [version |-> 0, path |-> <<>>]

NodeKeys == {RootKey}

Nodes == {[key_hash |-> Key1, value_hash |-> 7],
          [key_hash |-> Key1, value_hash |-> 9]}

\* NodeBatch::nodes() of an update at one version: a map from the NodeKeys
\* created at that version to Nodes
NodeMaps(version) ==
    UNION {[S -> Nodes] : S \in SUBSET {nk \in NodeKeys : nk.version = version}}

\* NodeBatch::values() of an update at one version: a map from
\* (version, key_hash) to Option<Vec<u8>>
ValueMaps(version) ==
    UNION {{f \in [{<<version, k>> : k \in S} ->
                       UNION {ValueChoices(k, version) : k \in S}] :
               \A e \in DOMAIN f : f[e] \in ValueChoices(e[2], version)} :
           S \in SUBSET KeyHashes}

\* the NodeBatches handed to write_node_batch
Batches ==
    UNION {{[nodes |-> n, values |-> v] : n \in NodeMaps(version), v \in ValueMaps(version)} :
           version \in Versions}

\* the batches whose engine write the model lets fail: those that carry both a
\* node and a value
FailingBatches == {batch \in Batches : batch.nodes # <<>> /\ batch.values # <<>>}

\* the stale-node index of a tree update: the nodes the update at version 1
\* replaces, each with the version since which it is stale
StaleNodeIndexBatches ==
    SUBSET {[stale_since_version |-> 1, node_key |-> nk] : nk \in NodeKeys}

\* the TreeUpdateBatches handed to write_tree_update_batch: the updates at
\* version 1 that write a value
TreeUpdateBatches ==
    {[node_batch |-> b, stale_node_index_batch |-> stale] :
        b \in {x \in Batches : /\ DOMAIN x.values # {}
                                /\ \A e \in DOMAIN x.values : e[1] = 1},
        stale \in StaleNodeIndexBatches}

----------------------------------------------------------------------------
(* TreeReader, HasPreimage *)

\* a get_node_option that reads undecodable bytes as no node
GetNodeOptionMatchLenient(got) ==
    IF ~IsOk(got) THEN Err
    ELSE IF got[2] = None THEN Ok(None)
    ELSE LET node == DeserializeNode(got[2][1])
         IN  IF IsOk(node) THEN Ok(Some(node[2])) ELSE Ok(None)

\* get_node_option from the result got of self.db.get(key): the `?` on the
\* get, the match, and the `?` on bincode::deserialize
GetNodeOptionMatch(got) ==
    IF ~IsOk(got) THEN Err
    ELSE IF got[2] = None THEN Ok(None)
    ELSE LET node == DeserializeNode(got[2][1])
         IN  IF IsOk(node) THEN Ok(Some(node[2])) ELSE Err

\* get_node_option over engine contents db, the engine get succeeding
GetNodeOptionOf(db, node_key) ==
    GetNodeOptionMatch(Ok(DbGet(db, SerializeNodeKey(node_key))))

\* the stored leaves of db, each with the bytes of its key
StoredLeavesOf(db) ==
    {<<db[i][1], DeserializeNode(db[i][2])[2]>> :
        i \in {j \in 1..Len(db) : IsOk(DeserializeNode(db[j][2]))}}

\* a get_rightmost_leaf that scans the engine and returns a stored leaf
GetRightmostLeafScanning(db) ==
    IF StoredLeavesOf(db) = {} THEN Ok(None)
    ELSE Ok(Some(CHOOSE l \in StoredLeavesOf(db) :
                    \A o \in StoredLeavesOf(db) \ {l} : LexLess(o[1], l[1])))

\* get_rightmost_leaf over engine contents db: Ok(None), the engine is not read
GetRightmostLeafOf(db) == Ok(None)

\* a range test that lets every version through
InRangeIgnored(version, max_version) == TRUE

\* version <= max_version
InRange(version, max_version) == version <= max_version

\* a comparison that keeps the first matching entry
IsNewerFirstMatch(version, latest_version) == latest_version = None

\* latest_version.is_none() || version > latest_version.unwrap()
IsNewer(version, latest_version) ==
    latest_version = None \/ version > latest_version[1]

\* a key test that takes the entries of every content key
SameKeyHashAlways(stored_key_hash, key_hash) == TRUE

\* stored_key_hash == key_hash
SameKeyHash(stored_key_hash, key_hash) == stored_key_hash = HashBytes(key_hash)

\* one pass of the for loop of get_value_option: the entry (key, value) seen
\* with the scan's latest_value and latest_version in acc
ScanBody(key, value, max_version, key_hash, acc) ==
    LET decoded == DeserializeValueKey(key)
        hit == /\ IsOk(decoded)
               /\ SameKeyHash(decoded[2].key_hash, key_hash)
               /\ InRange(decoded[2].version, max_version)
               /\ IsNewer(decoded[2].version, acc.latest_version)
    IN  IF ~hit THEN acc
        ELSE [latest_value |-> IF IsOk(DeserializeValue(value))
                               THEN DeserializeValue(value)[2]
                               ELSE acc.latest_value,
              latest_version |-> Some(decoded[2].version)]

RECURSIVE ScanLoop(_, _, _, _, _)
\* the for loop of get_value_option from position i of the iterator over db
ScanLoop(db, i, max_version, key_hash, acc) ==
    IF i > Len(db) THEN acc.latest_value
    ELSE ScanLoop(db, i + 1, max_version, key_hash,
                  ScanBody(db[i][1], db[i][2], max_version, key_hash, acc))

\* latest_value and latest_version as the scan starts
ScanStart == [latest_value |-> None, latest_version |-> None]

\* get_value_option over engine contents db, iterated from the start
GetValueOptionOf(db, max_version, key_hash) ==
    Ok(ScanLoop(db, 1, max_version, key_hash, ScanStart))

\* preimage over engine contents db
PreimageOf(db, key_hash) == Ok(DbGet(db, SerializePreimageKey(key_hash)))

----------------------------------------------------------------------------
(* TreeWriter *)

RECURSIVE PutsOf(_)
\* a map of puts as the sequence of puts a loop over it adds to the WriteBatch
PutsOf(puts) ==
    IF DOMAIN puts = {} THEN <<>>
    ELSE LET k == CHOOSE x \in DOMAIN puts : \A o \in DOMAIN puts \ {x} : LexLess(x, o)
         IN  <<<<k, puts[k]>>>> \o PutsOf([o \in DOMAIN puts \ {k} |-> puts[o]])

\* the first loop of write_node_batch: a put per node
NodePuts(batch) ==
    PutsOf([k \in {SerializeNodeKey(nk) : nk \in DOMAIN batch.nodes} |->
        SerializeNode(batch.nodes[CHOOSE nk \in DOMAIN batch.nodes : SerializeNodeKey(nk) = k])])

\* the second loop of write_node_batch: a put per value
ValuePuts(batch) ==
    PutsOf([k \in {SerializeValueKey(e[2], e[1]) : e \in DOMAIN batch.values} |->
        SerializeValue(batch.values[CHOOSE e \in DOMAIN batch.values :
                                        SerializeValueKey(e[2], e[1]) = k])])

\* the WriteBatch write_node_batch builds for a batch
BuildWriteBatch(batch) == NodePuts(batch) \o ValuePuts(batch)

\* the WriteBatch of every batch of the model, built once
WriteBatchTable == [batch \in Batches |-> BuildWriteBatch(batch)]

\* the WriteBatch write_node_batch stages
StageBatch(batch) == WriteBatchTable[batch]

RECURSIVE ApplyPuts(_, _)
\* the puts of a WriteBatch applied in order
ApplyPuts(db, puts) ==
    IF puts = <<>> THEN db
    ELSE ApplyPuts(DbPut(db, Head(puts)[1], Head(puts)[2]), Tail(puts))

\* self.db.write(batch) when the engine accepts the write
DbWrite(db, puts) == ApplyPuts(db, puts)

\* a failed write that leaves the first put of the batch behind
DbWriteFailedPartial(db, puts) == ApplyPuts(db, SubSeq(puts, 1, 1))

\* self.db.write(batch) when the engine reports a failure
DbWriteFailed(db, puts) == db

\* a write_tree_update_batch that also deletes the nodes its index marks stale
WriteTreeUpdateBatchPruning(db, update) ==
    SelectSeq(DbWrite(db, StageBatch(update.node_batch)),
              LAMBDA entry : \A stale \in update.stale_node_index_batch :
                                entry[1] # SerializeNodeKey(stale.node_key))

\* the engine after a write_tree_update_batch that succeeds:
\* self.write_node_batch(&batch.node_batch)?, the stale index left unread
WriteTreeUpdateBatchOf(db, update) == DbWrite(db, StageBatch(update.node_batch))

\* the value entries of a batch, keyed as the history keeps them
Record(history, batch) ==
    [e \in DOMAIN history \cup {<<x[2], x[1]>> : x \in DOMAIN batch.values} |->
        IF <<e[2], e[1]>> \in DOMAIN batch.values THEN batch.values[<<e[2], e[1]>>]
        ELSE history[e]]

----------------------------------------------------------------------------
(* The store used by one caller at a time *)

\* RocksDbTreeStore::new_temporary: a store over an empty engine
Init ==
    /\ engine = <<>>
    /\ committed = <<>>
    /\ ret = [op |-> "new"]
    /\ pc = "idle"
    /\ wb = <<>>
    /\ iter = None

\* write_node_batch, the engine accepting the write
WriteNodeBatchOk(batch) ==
    /\ pc = "idle"
    /\ engine' = DbWrite(engine, StageBatch(batch))
    /\ committed' = Record(committed, batch)
    /\ ret' = [op |-> "write_node_batch", batch |-> batch, res |-> Ok(<<>>)]
    /\ UNCHANGED <<pc, wb, iter>>

\* write_node_batch, the engine write failing
WriteNodeBatchErr(batch) ==
    /\ pc = "idle"
    /\ engine' = DbWriteFailed(engine, StageBatch(batch))
    /\ ret' = [op |-> "write_node_batch", batch |-> batch, res |-> Err]
    /\ UNCHANGED <<committed, pc, wb, iter>>

\* write_tree_update_batch, the engine accepting the write
WriteTreeUpdateBatchOk(update) ==
    /\ pc = "idle"
    /\ engine' = WriteTreeUpdateBatchOf(engine, update)
    /\ committed' = Record(committed, update.node_batch)
    /\ ret' = [op |-> "write_tree_update_batch", batch |-> update.node_batch,
               stale |-> update.stale_node_index_batch, res |-> Ok(<<>>)]
    /\ UNCHANGED <<pc, wb, iter>>

\* write_tree_update_batch, the error of write_node_batch returned by `?`
WriteTreeUpdateBatchErr(update) ==
    /\ pc = "idle"
    /\ engine' = DbWriteFailed(engine, StageBatch(update.node_batch))
    /\ ret' = [op |-> "write_tree_update_batch", batch |-> update.node_batch,
               stale |-> update.stale_node_index_batch, res |-> Err]
    /\ UNCHANGED <<committed, pc, wb, iter>>

\* get_node_option; the engine get may report an error
GetNodeOption(node_key) ==
    /\ \E got \in {Ok(DbGet(engine, SerializeNodeKey(node_key))), Err} :
          ret' = [op |-> "get_node_option", node_key |-> node_key,
                  engine_err |-> ~IsOk(got), res |-> GetNodeOptionMatch(got)]
    /\ UNCHANGED <<engine, committed, pc, wb, iter>>

\* get_rightmost_leaf
GetRightmostLeaf ==
    /\ ret' = [op |-> "get_rightmost_leaf", res |-> GetRightmostLeafOf(engine)]
    /\ UNCHANGED <<engine, committed, pc, wb, iter>>

\* a get_value_option whose scan takes the first entry out of the engine
GetValueOptionConsuming(max_version, key_hash) ==
    /\ \E res \in {GetValueOptionOf(engine, max_version, key_hash), Err} :
          ret' = [op |-> "get_value_option", max_version |-> max_version,
                  key_hash |-> key_hash, res |-> res]
    /\ engine' = IF engine = <<>> THEN engine ELSE Tail(engine)
    /\ UNCHANGED <<committed, pc, wb, iter>>

\* get_value_option; the iterator may report an error
GetValueOption(max_version, key_hash) ==
    /\ \E res \in {GetValueOptionOf(engine, max_version, key_hash), Err} :
          ret' = [op |-> "get_value_option", max_version |-> max_version,
                  key_hash |-> key_hash, res |-> res]
    /\ UNCHANGED <<engine, committed, pc, wb, iter>>

\* preimage; the engine get may report an error
Preimage(key_hash) ==
    /\ \E res \in {PreimageOf(engine, key_hash), Err} :
          ret' = [op |-> "preimage", key_hash |-> key_hash, res |-> res]
    /\ UNCHANGED <<engine, committed, pc, wb, iter>>

Next ==
    \/ \E batch \in Batches : WriteNodeBatchOk(batch)
    \/ \E batch \in FailingBatches : WriteNodeBatchErr(batch)
    \/ \E update \in TreeUpdateBatches : WriteTreeUpdateBatchOk(update)
    \/ \E update \in TreeUpdateBatches : WriteTreeUpdateBatchErr(update)
    \/ \E node_key \in NodeKeys : GetNodeOption(node_key)
    \/ GetRightmostLeaf
    \/ \E max_version \in Versions, key_hash \in KeyHashes :
          GetValueOption(max_version, key_hash)
    \/ \E key_hash \in KeyHashes : Preimage(key_hash)

Spec == Init /\ [][Next]_vars

----------------------------------------------------------------------------
(* The store shared by a writer and readers: write_node_batch and           *)
(* get_value_option taken step by step                                      *)

\* staging that puts the first entry straight into the engine
DbWhileStagingPutsThrough(db, puts) == ApplyPuts(db, SubSeq(puts, 1, 1))

\* the engine as readers see it while write_node_batch fills its WriteBatch:
\* batch.put touches only the WriteBatch
DbWhileStaging(db, puts) == db

\* what an iterator created over snapshot reads when the engine holds live
IteratorView(snapshot, live) == snapshot

\* write_node_batch up to the engine write: the WriteBatch is filled
BeginWrite(batch) ==
    /\ pc = "idle"
    /\ pc' = "staged"
    /\ wb' = [batch |-> batch, puts |-> StageBatch(batch)]
    /\ engine' = DbWhileStaging(engine, StageBatch(batch))
    /\ UNCHANGED <<committed, ret, iter>>

\* self.db.write(batch) accepted: the call returns Ok
CommitWrite ==
    /\ pc = "staged"
    /\ engine' = DbWrite(engine, wb.puts)
    /\ committed' = Record(committed, wb.batch)
    /\ ret' = [op |-> "write_node_batch", batch |-> wb.batch, res |-> Ok(<<>>)]
    /\ pc' = "idle"
    /\ wb' = <<>>
    /\ UNCHANGED iter

\* self.db.write(batch) failing: the call returns the error
AbortWrite ==
    /\ pc = "staged"
    /\ engine' = DbWriteFailed(engine, wb.puts)
    /\ ret' = [op |-> "write_node_batch", batch |-> wb.batch, res |-> Err]
    /\ pc' = "idle"
    /\ wb' = <<>>
    /\ UNCHANGED <<committed, iter>>

\* the WriteBatch after the loops of write_node_batch have put n entries
StagePrefix(batch, n) == SubSeq(StageBatch(batch), 1, n)

\* an error return that first writes what the WriteBatch holds
DropWriteBatchFlushed(db, puts) == ApplyPuts(db, puts)

\* the `?` after a failed bincode::serialize returns from write_node_batch:
\* the WriteBatch is dropped and self.db.write is never reached
DropWriteBatch(db, puts) == db

\* write_node_batch up to a bincode::serialize that fails, after n entries
\* have been serialized and put into the WriteBatch
BeginWriteSerializeErr(batch, n) ==
    /\ pc = "idle"
    /\ pc' = "failing"
    /\ wb' = [batch |-> batch, puts |-> StagePrefix(batch, n)]
    /\ engine' = DbWhileStaging(engine, StagePrefix(batch, n))
    /\ UNCHANGED <<committed, ret, iter>>

\* the serialization error is returned to the caller
ReturnSerializeErr ==
    /\ pc = "failing"
    /\ engine' = DropWriteBatch(engine, wb.puts)
    /\ ret' = [op |-> "write_node_batch", batch |-> wb.batch, res |-> Err,
               serialized |-> Len(wb.puts)]
    /\ pc' = "idle"
    /\ wb' = <<>>
    /\ UNCHANGED <<committed, iter>>

\* get_value_option up to the loop: the iterator is created over the engine
OpenIterator(max_version, key_hash) ==
    /\ iter = None
    /\ iter' = Some([snapshot |-> engine, pos |-> 1, max_version |-> max_version,
                     key_hash |-> key_hash, acc |-> ScanStart])
    /\ UNCHANGED <<engine, committed, ret, pc, wb>>

\* one pass of the loop of get_value_option
ScanStep ==
    /\ iter # None
    /\ LET it == iter[1]
           view == IteratorView(it.snapshot, engine)
       IN  /\ it.pos <= Len(view)
           /\ iter' = Some([it EXCEPT
                  !.pos = it.pos + 1,
                  !.acc = ScanBody(view[it.pos][1], view[it.pos][2],
                                   it.max_version, it.key_hash, it.acc)])
    /\ UNCHANGED <<engine, committed, ret, pc, wb>>

\* the loop of get_value_option is over: the call returns latest_value
FinishScan ==
    /\ iter # None
    /\ iter[1].pos > Len(IteratorView(iter[1].snapshot, engine))
    /\ ret' = [op |-> "get_value_option", max_version |-> iter[1].max_version,
               key_hash |-> iter[1].key_hash, res |-> Ok(iter[1].acc.latest_value)]
    /\ iter' = None
    /\ UNCHANGED <<engine, committed, pc, wb>>

NextConcurrent ==
    \/ \E batch \in FailingBatches : BeginWrite(batch)
    \/ CommitWrite
    \/ AbortWrite
    \/ \E batch \in FailingBatches :
          \E n \in 0..(Len(StageBatch(batch)) - 1) : BeginWriteSerializeErr(batch, n)
    \/ ReturnSerializeErr
    \/ \E node_key \in NodeKeys : GetNodeOption(node_key)
    \/ \E max_version \in Versions, key_hash \in KeyHashes :
          OpenIterator(max_version, key_hash)
    \/ ScanStep
    \/ FinishScan

SpecConcurrent == Init /\ [][NextConcurrent]_vars

----------------------------------------------------------------------------
(* The store opened over a database that already holds entries              *)

\* value bytes that are no bincode Option<Vec<u8>>: an unknown tag, and a
\* Some whose length runs past the bytes
CorruptValues == {<<2>>, <<1>> \o SerializeU64(4) \o <<9>>}

\* original key bytes stored as preimages
PreimageValues == {<<0>>, <<107>>}

\* the value entries a database may hold when it is opened
ExistingValueMaps ==
    UNION {[S -> {Some(PayloadA), Some(PayloadB)}] :
           S \in SUBSET {<<Key1, 0>>, <<Key1, 1>>}}

\* the value keys under which a database may hold undecodable bytes
ExistingCorruptMaps ==
    UNION {[S -> CorruptValues] : S \in SUBSET {<<Key1, 1>>, <<Key2, 0>>}}

\* the preimages a database may hold
ExistingPreimageMaps == UNION {[S -> PreimageValues] : S \in SUBSET {Key1}}

\* the nodes a database may hold
ExistingNodeMaps == UNION {[S -> Nodes] : S \in SUBSET NodeKeys}

\* node bytes that are no bincode Node: too short for a discriminant, and a
\* leaf cut off inside its hashes
CorruptNodes == {<<9>>, SubSeq(SerializeNode([key_hash |-> Key1, value_hash |-> 7]), 1, 10)}

\* the node keys under which a database may hold undecodable bytes
ExistingCorruptNodeMaps == UNION {[S -> CorruptNodes] : S \in SUBSET NodeKeys}

\* the databases RocksDbTreeStore::new may find at its path
ExistingDbs ==
    {d \in [values : ExistingValueMaps, corrupt : ExistingCorruptMaps,
            preimages : ExistingPreimageMaps, nodes : ExistingNodeMaps,
            corrupt_nodes : ExistingCorruptNodeMaps] :
        /\ DOMAIN d.values \cap DOMAIN d.corrupt = {}
        /\ DOMAIN d.nodes \cap DOMAIN d.corrupt_nodes = {}}

\* the engine contents of an existing database
EngineOf(d) ==
    ApplyPuts(<<>>,
        PutsOf([k \in {SerializeNodeKey(nk) : nk \in DOMAIN d.nodes} |->
            SerializeNode(d.nodes[CHOOSE nk \in DOMAIN d.nodes : SerializeNodeKey(nk) = k])])
        \o PutsOf([k \in {SerializeNodeKey(nk) : nk \in DOMAIN d.corrupt_nodes} |->
            d.corrupt_nodes[CHOOSE nk \in DOMAIN d.corrupt_nodes : SerializeNodeKey(nk) = k]])
        \o PutsOf([k \in {SerializeValueKey(e[1], e[2]) : e \in DOMAIN d.values} |->
            SerializeValue(d.values[CHOOSE e \in DOMAIN d.values :
                                        SerializeValueKey(e[1], e[2]) = k])])
        \o PutsOf([k \in {SerializeValueKey(e[1], e[2]) : e \in DOMAIN d.corrupt} |->
            d.corrupt[CHOOSE e \in DOMAIN d.corrupt : SerializeValueKey(e[1], e[2]) = k]])
        \o PutsOf([k \in {SerializePreimageKey(h) : h \in DOMAIN d.preimages} |->
            d.preimages[CHOOSE h \in DOMAIN d.preimages : SerializePreimageKey(h) = k]]))

\* RocksDbTreeStore::new(path): a store over the database found at path
InitOpened ==
    /\ \E d \in ExistingDbs :
          /\ engine = EngineOf(d)
          /\ committed = d.values
    /\ ret = [op |-> "new"]
    /\ pc = "idle"
    /\ wb = <<>>
    /\ iter = None

\* the versions read from an opened store: those of the batches, and the
\* number a preimage key carries where a value key carries its version
OpenedVersions == Versions \cup {Len(PreimageTag)}

NextOpened ==
    \/ \E node_key \in NodeKeys : GetNodeOption(node_key)
    \/ GetRightmostLeaf
    \/ \E max_version \in OpenedVersions, key_hash \in KeyHashes :
          GetValueOption(max_version, key_hash)
    \/ \E key_hash \in KeyHashes : Preimage(key_hash)

SpecOpened == InitOpened /\ [][NextOpened]_vars

----------------------------------------------------------------------------
(* The value-key codec on its own *)

CodecVersions == 0..MaxCodecVersion

\* a content key and two versions to encode
InitCodec ==
    /\ engine = <<>>
    /\ committed = <<>>
    /\ ret \in [op : {"versions"}, key_hash : {Key1}, v1 : CodecVersions,
                v2 : CodecVersions]
    /\ pc = "idle"
    /\ wb = <<>>
    /\ iter = None

\* the engine keys the second loop of write_node_batch makes of them
EncodeValueKeys ==
    /\ ret.op = "versions"
    /\ ret' = [op |-> "value_keys", key_hash |-> ret.key_hash,
               v1 |-> ret.v1, v2 |-> ret.v2,
               key1 |-> SerializeValueKey(ret.key_hash, ret.v1),
               key2 |-> SerializeValueKey(ret.key_hash, ret.v2)]
    /\ UNCHANGED <<engine, committed, pc, wb, iter>>

NextCodec == EncodeValueKeys

SpecCodec == InitCodec /\ [][NextCodec]_vars

----------------------------------------------------------------------------
(* What the history says a lookup should see *)

\* the versions at or before max_version at which key_hash has a committed entry
VersionsUpTo(history, max_version, key_hash) ==
    {e[2] : e \in {x \in DOMAIN history : x[1] = key_hash /\ x[2] <= max_version}}

\* the largest element of a non-empty set of versions
Largest(versions) == CHOOSE v \in versions : \A o \in versions : o <= v

\* the payload of the committed entry for key_hash with the largest version at
\* or before max_version; None when there is no such entry
LatestPayload(history, max_version, key_hash) ==
    IF VersionsUpTo(history, max_version, key_hash) = {} THEN None
    ELSE history[<<key_hash, Largest(VersionsUpTo(history, max_version, key_hash))>>]

\* every node and every value of a batch can be read back from db
BatchReadable(db, batch) ==
    /\ \A nk \in DOMAIN batch.nodes :
          GetNodeOptionOf(db, nk) = Ok(Some(batch.nodes[nk]))
    /\ \A e \in DOMAIN batch.values :
          GetValueOptionOf(db, e[1], e[2]) = Ok(batch.values[e])

\* no node and no value of a batch can be read back from db
BatchInvisible(db, batch) ==
    /\ \A nk \in DOMAIN batch.nodes : GetNodeOptionOf(db, nk) = Ok(None)
    /\ \A e \in DOMAIN batch.values :
          DbGet(db, SerializeValueKey(e[2], e[1])) = None

----------------------------------------------------------------------------
(* Claims *)

\* C1: a get_value_option(max_version, key_hash) that returns gives the payload
\* of the committed entry for key_hash with the largest version <= max_version
\* (Some(bytes) for a put, None for a tombstone), and None when key_hash has no
\* entry at or before max_version.
C1_LatestVersionLookup ==
    (ret.op = "get_value_option" /\ IsOk(ret.res)) =>
        ret.res = Ok(LatestPayload(committed, ret.max_version, ret.key_hash))

\* C1 witness: entries {0: a, 1: b, 2: tombstone} for the first key, read at 1
C1_Witness ==
    /\ ret.op = "get_value_option" /\ ret.key_hash = Key1 /\ ret.max_version = 1
    /\ ret.res = Ok(Some(PayloadB))
    /\ <<Key1, 0>> \in DOMAIN committed /\ committed[<<Key1, 0>>] = Some(PayloadA)
    /\ <<Key1, 2>> \in DOMAIN committed /\ committed[<<Key1, 2>>] = None

\* C2: a payload returned by get_value_option(max_version, key_hash) is the
\* payload of an entry of key_hash whose version is <= max_version, and a key
\* whose entries all have versions above max_version reads as absent.
C2_NeverNewerThanRequested ==
    (ret.op = "get_value_option" /\ IsOk(ret.res)) =>
        /\ ret.res[2] # None =>
              \E e \in DOMAIN committed :
                  /\ e[1] = ret.key_hash /\ e[2] <= ret.max_version
                  /\ committed[e] = ret.res[2]
        /\ VersionsUpTo(committed, ret.max_version, ret.key_hash) = {} =>
              ret.res[2] = None

\* C2 witness: the second key, first written at the last version, read one
\* version earlier
C2_Witness ==
    /\ ret.op = "get_value_option" /\ ret.key_hash = Key2
    /\ ret.max_version = MaxVersion - 1
    /\ <<Key2, MaxVersion>> \in DOMAIN committed
    /\ ret.res = Ok(None)

\* C3: a write_node_batch call that succeeds leaves every node and every value
\* of its batch readable, and one whose engine write fails leaves the engine
\* as it was before the call.
C3_AllOrNothing ==
    [][ret'.op = "write_node_batch" =>
          IF IsOk(ret'.res) THEN BatchReadable(engine', ret'.batch)
          ELSE engine' = engine]_vars

\* C3 witness: a failed write of a batch with a node and a value over a
\* non-empty engine, none of the batch visible
C3_Witness ==
    /\ ret.op = "write_node_batch" /\ ~IsOk(ret.res)
    /\ ret.batch.nodes # <<>> /\ ret.batch.values # <<>>
    /\ engine # <<>>
    /\ BatchInvisible(engine, ret.batch)

\* C5: once get_node_option(k) has returned a node, the next get_node_option(k)
\* returns the same node whatever write_node_batch call comes in between.
C5_SameNodeForever ==
    [][(ret.op = "get_node_option" /\ IsOk(ret.res) /\ ret.res[2] # None) =>
          GetNodeOptionOf(engine', ret.node_key) = ret.res]_vars

\* C6: a write_node_batch whose value entries all have versions above
\* max_version leaves get_value_option(max_version, key_hash) as it was, for
\* every key.
C6_HistoryStaysQueryable ==
    [][(ret'.op = "write_node_batch" /\ IsOk(ret'.res)) =>
          \A max_version \in Versions :
              (\A e \in DOMAIN ret'.batch.values : max_version < e[1]) =>
                  \A key_hash \in KeyHashes :
                      GetValueOptionOf(engine', max_version, key_hash)
                          = GetValueOptionOf(engine, max_version, key_hash)]_vars

\* C6 witness: a tombstone written at the last version over a payload written
\* at version 0
C6_Witness ==
    /\ ret.op = "write_node_batch" /\ IsOk(ret.res)
    /\ <<MaxVersion, Key1>> \in DOMAIN ret.batch.values
    /\ ret.batch.values[<<MaxVersion, Key1>>] = None
    /\ GetValueOptionOf(engine, 0, Key1) = Ok(Some(PayloadA))
    /\ GetValueOptionOf(engine, MaxVersion, Key1) = Ok(None)

\* C7: get_value_option answers differently for a key with no entry at or
\* before max_version and for a key whose latest entry at or before
\* max_version is a tombstone.
C7_AbsentDiffersFromTombstone ==
    \A k1, k2 \in KeyHashes : \A v1, v2 \in Versions :
        ( /\ VersionsUpTo(committed, v1, k1) = {}
          /\ VersionsUpTo(committed, v2, k2) # {}
          /\ LatestPayload(committed, v2, k2) = None )
        => GetValueOptionOf(engine, v1, k1) # GetValueOptionOf(engine, v2, k2)

\* C4: readers never see part of a batch: the engine contents change only in
\* the engine write of a staged batch, and then every node and every value of
\* that batch is readable; and a get_value_option scan returns what the engine
\* held when its iterator was created, whatever is committed while it runs.
C4_ReadersSeeWholeBatches ==
    [][/\ engine' # engine => (pc = "staged" /\ BatchReadable(engine', wb.batch))
       /\ (iter # None /\ iter' = None) =>
              ret'.res = GetValueOptionOf(iter[1].snapshot, iter[1].max_version,
                                          iter[1].key_hash)]_vars

\* C4 witness: a scan in progress whose iterator is older than the engine
\* contents, while the next batch is staged and not yet visible
C4_Witness ==
    /\ pc = "staged"
    /\ iter # None /\ iter[1].pos > 1
    /\ iter[1].snapshot # engine
    /\ ~BatchReadable(engine, wb.batch)

\* the value-key entries of db whose value bytes do not decode, for key_hash
\* and versions <= max_version
UndecodableEntries(db, max_version, key_hash) ==
    {i \in 1..Len(db) :
        /\ Len(db[i][1]) = KeyHashLen + U64Len
        /\ DeserializeValueKey(db[i][1])[2].key_hash = HashBytes(key_hash)
        /\ DeserializeValueKey(db[i][1])[2].version <= max_version
        /\ ~IsOk(DeserializeValue(db[i][2]))}

\* C8: a get_value_option(max_version, key_hash) over an engine that holds,
\* for key_hash and a version <= max_version, value bytes that fail to decode
\* returns an error.
C8_CorruptionSurfaced ==
    (ret.op = "get_value_option"
        /\ UndecodableEntries(engine, ret.max_version, ret.key_hash) # {})
    => ret.res = Err

\* C9: for versions v1 < v2 of one content key, the engine key of (key_hash, v1)
\* sorts strictly before the engine key of (key_hash, v2).
C9_KeyOrderFollowsVersionOrder ==
    (ret.op = "value_keys" /\ ret.v1 < ret.v2) => LexLess(ret.key1, ret.key2)

\* the engine keys of the node and preimage namespaces
IsNodeKey(key) == \E nk \in NodeKeys : key = SerializeNodeKey(nk)
IsPreimageKey(key) == \E h \in KeyHashes : key = SerializePreimageKey(h)

\* db without its node and preimage entries
ValueEntriesOf(db) ==
    LET keep == {i \in 1..Len(db) : ~IsNodeKey(db[i][1]) /\ ~IsPreimageKey(db[i][1])}
        nth(n) == CHOOSE i \in keep : Cardinality({j \in keep : j < i}) = n - 1
    IN  [n \in 1..Cardinality(keep) |-> db[nth(n)]]

\* C10: the key preimage() builds does not decode as a
\* (content_key_hash, version) key, no node key and no preimage key in the
\* engine does, and get_value_option returns the same with and without the
\* node and preimage entries.
C10_NamespacesDisjoint ==
    /\ ret.op = "preimage" =>
          ~IsOk(DeserializeValueKey(SerializePreimageKey(ret.key_hash)))
    /\ (ret.op = "get_value_option" /\ IsOk(ret.res)) =>
          /\ \A i \in 1..Len(engine) :
                (IsNodeKey(engine[i][1]) \/ IsPreimageKey(engine[i][1]))
                    => ~IsOk(DeserializeValueKey(engine[i][1]))
          /\ ret.res = GetValueOptionOf(ValueEntriesOf(engine), ret.max_version,
                                        ret.key_hash)

\* C12: a write_node_batch in which a serialization fails issues no engine
\* write and returns the error: from the failure to the return the engine
\* contents stay as they were, entries serialized earlier in the loop included.
C12_SerializeFailureWritesNothing ==
    [][pc = "failing" =>
          /\ engine' = engine
          /\ pc' \in {"failing", "idle"}
          /\ pc' = "idle" =>
                /\ ret'.op = "write_node_batch" /\ ret'.batch = wb.batch
                /\ ret'.res = Err]_vars

\* C12 witness: the call has returned the error after the node of the batch
\* had been serialized, and the engine still holds another node under that key
C12_Witness ==
    /\ ret.op = "write_node_batch" /\ ~IsOk(ret.res)
    /\ "serialized" \in DOMAIN ret
    /\ ret.serialized >= 1
    /\ \E nk \in DOMAIN ret.batch.nodes :
          /\ GetNodeOptionOf(engine, nk) # Ok(None)
          /\ GetNodeOptionOf(engine, nk) # Ok(Some(ret.batch.nodes[nk]))

\* the bytes the engine holds under the key of node_key, if any
StoredNodeBytes(db, node_key) == DbGet(db, SerializeNodeKey(node_key))

\* C13: get_node_option returns an error when the engine get reports one and
\* when the bytes under the key do not decode as a Node, and it returns
\* absence only when the engine holds no entry under the key.
C13_NodeFailureNeverAbsence ==
    ret.op = "get_node_option" =>
        /\ ret.engine_err => ret.res = Err
        /\ (/\ StoredNodeBytes(engine, ret.node_key) # None
            /\ ~IsOk(DeserializeNode(StoredNodeBytes(engine, ret.node_key)[1])))
               => ret.res = Err
        /\ ret.res = Ok(None) =>
               (~ret.engine_err /\ StoredNodeBytes(engine, ret.node_key) = None)

\* C13 witness: the engine get succeeded, the bytes under the key are no Node
\* and the call returned an error
C13_Witness ==
    /\ ret.op = "get_node_option" /\ ~ret.engine_err
    /\ StoredNodeBytes(engine, ret.node_key) # None
    /\ ~IsOk(DeserializeNode(StoredNodeBytes(engine, ret.node_key)[1]))
    /\ ret.res = Err

\* C14: get_rightmost_leaf returns absence without error in every reachable
\* state, also when leaf nodes are stored.
C14_RightmostLeafAlwaysAbsent ==
    ret.op = "get_rightmost_leaf" => ret.res = Ok(None)

\* C14 witness: get_rightmost_leaf has returned absence while the engine
\* holds a leaf under the root key
C14_Witness ==
    /\ ret.op = "get_rightmost_leaf" /\ ret.res = Ok(None)
    /\ GetNodeOptionOf(engine, RootKey) \in {Ok(Some(n)) : n \in Nodes}

\* C15: write_tree_update_batch leaves the engine as write_node_batch of its
\* node_batch leaves it, whatever its stale-node index holds: the contents
\* with the batch written when it succeeds, the contents as they were when it
\* fails.  Every read is a read of these contents.
C15_StaleIndexIgnored ==
    [][ret'.op = "write_tree_update_batch" =>
          engine' = IF IsOk(ret'.res) THEN DbWrite(engine, StageBatch(ret'.batch))
                    ELSE DbWriteFailed(engine, StageBatch(ret'.batch))]_vars

\* C15 witness: an update whose index marks the stored root stale has been
\* written, and the root is still readable
C15_Witness ==
    /\ ret.op = "write_tree_update_batch" /\ IsOk(ret.res)
    /\ ret.stale # {}
    /\ \A stale \in ret.stale :
          GetNodeOptionOf(engine, stale.node_key) \in {Ok(Some(n)) : n \in Nodes}
    /\ BatchReadable(engine, ret.batch)

ReadOps == {"get_node_option", "get_value_option", "get_rightmost_leaf", "preimage"}

\* calls a and b are the same operation with the same arguments
SameCall(a, b) ==
    /\ a.op = b.op
    /\ a.op = "get_node_option" => a.node_key = b.node_key
    /\ a.op = "get_value_option" =>
          (a.max_version = b.max_version /\ a.key_hash = b.key_hash)
    /\ a.op = "preimage" => a.key_hash = b.key_hash

\* the engine answered the read r without reporting an error of its own
EngineAnswered(r) ==
    IF r.op = "get_node_option" THEN ~r.engine_err ELSE IsOk(r.res)

\* C17: a read leaves the engine contents as they were, whatever it returns,
\* and a read that repeats the call before it returns what that call
\* returned, the engine having answered both.
C17_ReadsLeaveEngineUnchanged ==
    [][ret'.op \in ReadOps =>
          /\ engine' = engine
          /\ (SameCall(ret, ret') /\ EngineAnswered(ret) /\ EngineAnswered(ret'))
                => ret'.res = ret.res]_vars

\* C17 witness: preimage has returned the bytes stored for a hash, over an
\* engine that also holds undecodable bytes under a node or value key
C17_Witness ==
    /\ ret.op = "preimage" /\ IsOk(ret.res) /\ ret.res[2] # None
    /\ PreimageOf(engine, ret.key_hash) = ret.res
    /\ \E i \in 1..Len(engine) : engine[i][2] \in CorruptValues \cup CorruptNodes

====
